---- MODULE Spec2Model ----
(***************************************************************************)
(* The query lifecycle of the DSA / LeetCode helper (src/src/App.jsx):     *)
(* the App component's state, the handleGenerateClick handler with its     *)
(* abort timer and its awaits, saveToHistory, clearHistory and showToast.  *)
(*                                                                         *)
(* Text is kept run-length encoded: a string is a sequence of runs         *)
(* [c |-> character, n |-> repetitions] with n > 0, so that a question of  *)
(* 2001 characters is a value of one run.  Times are milliseconds.         *)
(***************************************************************************)
EXTENDS Integers, Sequences, FiniteSets, TLC

-----------------------------------------------------------------------------
(* Program constants *)

API_REQUEST_TIMEOUT == 30000

API_RATE_LIMIT_MS == 1000

MIN_QUESTION_LENGTH == 5

MAX_QUESTION_LENGTH == 2000

HISTORY_CAP == 10

TOAST_MS == 3000

PLACEHOLDER_KEY == "YOUR_API_KEY_HERE"

-----------------------------------------------------------------------------
(* Bounds of the model *)

\* Date.now() when the page is loaded.
StartTime == 100000

\* The length of the session explored, in milliseconds.
Horizon == 32000

\* Accepted submissions (outbound calls) explored in one behaviour.
MaxCalls == 2

-----------------------------------------------------------------------------
(* Strings *)

Run(ch, k) == [c |-> ch, n |-> k]

IsSpace(ch) == ch \in {" ", "\t", "\n"}

RECURSIVE StrLen(_)
StrLen(s) == IF s = <<>> THEN 0 ELSE Head(s).n + StrLen(Tail(s))

RECURSIVE TrimStart(_)
TrimStart(s) ==
    IF s = <<>> THEN <<>>
    ELSE IF IsSpace(Head(s).c) THEN TrimStart(Tail(s))
    ELSE s

RECURSIVE TrimEnd(_)
TrimEnd(s) ==
    IF s = <<>> THEN <<>>
    ELSE IF IsSpace(s[Len(s)].c) THEN TrimEnd(SubSeq(s, 1, Len(s) - 1))
    ELSE s

\* String.prototype.trim
Trim(s) == TrimEnd(TrimStart(s))

Min(a, b) == IF a < b THEN a ELSE b

\* Array.prototype.slice(0, k)
Slice0(s, k) == SubSeq(s, 1, Min(k, Len(s)))

-----------------------------------------------------------------------------
(* Inputs *)

\* Texts the user can put into the question field.
Questions ==
    { << Run(" ", 3) >>,
      << Run(" ", 1), Run("a", MIN_QUESTION_LENGTH - 1), Run("\n", 1) >>,
      << Run("\t", 1), Run("a", 2), Run(" ", 1), Run("b", MIN_QUESTION_LENGTH - 3),
         Run(" ", 2) >>,
      << Run(" ", 1), Run("a", MAX_QUESTION_LENGTH) >>,
      << Run("a", MAX_QUESTION_LENGTH + 1), Run(" ", 1) >> }

\* Answer texts the provider can return.
AnswerTexts == { "Use two pointers." }

-----------------------------------------------------------------------------
(* JSON values, as JSON.parse produces them *)

JUndefined == [t |-> "undefined"]

JNull == [t |-> "null"]

JStr(s) == [t |-> "string", v |-> s]

JNum(k) == [t |-> "number", v |-> k]

JObj(fields) == [t |-> "object", v |-> fields]

JArr(elems) == [t |-> "array", v |-> elems]

Nullish(x) == x.t \in {"undefined", "null"}

\* Whether a value counts as true in a condition.
Truthy(x) ==
    /\ ~Nullish(x)
    /\ ~(x.t = "string" /\ x.v = "")
    /\ ~(x.t = "number" /\ x.v = 0)

\* x.k for an x that is neither null nor undefined.
Prop(x, k) == IF x.t = "object" /\ k \in DOMAIN x.v THEN x.v[k] ELSE JUndefined

\* x?.k
OptProp(x, k) == IF Nullish(x) THEN JUndefined ELSE Prop(x, k)

\* x?.[0]
OptFirst(x) ==
    IF Nullish(x) THEN JUndefined
    ELSE IF x.t = "array" /\ Len(x.v) > 0 THEN x.v[1]
    ELSE JUndefined

\* a || b
OrElse(a, b) == IF Truthy(a) THEN a ELSE b

\* A value interpolated into a template literal.
Display(x) == IF x.t = "number" THEN ToString(x.v) ELSE x.v

-----------------------------------------------------------------------------
(* The provider's replies *)

\* A response: status line and body; the body is JSON text or it is not.
Statuses ==
    { [status |-> 200, statusText |-> "OK"],
      [status |-> 429, statusText |-> "Too Many Requests"],
      [status |-> 500, statusText |-> ""] }

ResponseOk(r) == r.status >= 200 /\ r.status <= 299

NotJson == [parses |-> FALSE, value |-> JUndefined]

Parsed(x) == [parses |-> TRUE, value |-> x]

Reply(text) ==
    JObj([candidates |-> JArr(<< JObj([content |->
        JObj([parts |-> JArr(<< JObj([text |-> text]) >>)])]) >>)])

Bodies ==
    { NotJson,
      Parsed(JNull),
      Parsed(JObj([other |-> JNum(1)])),
      Parsed(JObj([error |-> JObj([message |-> JStr("Quota exceeded")])])),
      Parsed(JObj([error |-> JObj([code |-> JNum(429)])])),
      Parsed(JObj([candidates |-> JArr(<<>>)])),
      Parsed(JObj([candidates |-> JArr(<< JObj([finishReason |-> JStr("SAFETY")]) >>)])),
      Parsed(JObj([candidates |-> JArr(<< JObj([content |-> JObj([role |-> JStr("model")])]) >>)])),
      Parsed(JObj([candidates |-> JArr(<< JObj([content |-> JObj([parts |-> JArr(<<>>)])]) >>)])),
      Parsed(Reply(JUndefined)),
      Parsed(Reply(JStr(""))) }
    \cup { Parsed(Reply(JStr(a))) : a \in AnswerTexts }

-----------------------------------------------------------------------------
(* Messages *)

EmptyQuestionMsg == "Please enter a DSA or LeetCode question."

TooShortMsg ==
    "Question must be at least " \o ToString(MIN_QUESTION_LENGTH) \o " characters long."

TooLongMsg(k) ==
    "Question must be less than " \o ToString(MAX_QUESTION_LENGTH)
        \o " characters. Current: " \o ToString(k)

NoApiKeyMsg == "API Key not configured."

RateLimitMsg == "Please wait a moment before making another request."

TimeoutMsg ==
    "Request timeout(" \o ToString(API_REQUEST_TIMEOUT \div 1000)
        \o "s). The API took too long to respond. Please try again."

NetworkMsg(m) ==
    "Network Error: Unable to reach API. Check your internet connection. " \o m

ApiErrorMsg(status, m) == "API Error " \o ToString(status) \o ": " \o m

ParseFailedMsg == "Failed to parse API response. Invalid JSON received."

NoAnswerMsg == "No response received from the API. Please try again."

NullReadMsg == "Cannot read properties of null (reading 'candidates')"

\* The text the catch block of handleGenerateClick shows for a thrown error.
CaughtMsg(m) == "Error: " \o m \o " Please check your API key and try again."

AnswerToast == "Answer generated successfully!"

StorageFullToast == "Storage full. Clearing old history."

ClearedToast == "History cleared"

-----------------------------------------------------------------------------
(* Pure steps of handleGenerateClick *)

\* ValidationError with the minimum length compared by <= instead of <.
ValidationErrorOffByOne(tq) ==
    IF StrLen(tq) = 0 THEN EmptyQuestionMsg
    ELSE IF StrLen(tq) <= MIN_QUESTION_LENGTH THEN TooShortMsg
    ELSE IF StrLen(tq) > MAX_QUESTION_LENGTH THEN TooLongMsg(StrLen(tq))
    ELSE ""

\* The validation of the trimmed question: the message of the first check
\* that fails, "" when all pass.
ValidationError(tq) ==
    IF StrLen(tq) = 0 THEN EmptyQuestionMsg
    ELSE IF StrLen(tq) < MIN_QUESTION_LENGTH THEN TooShortMsg
    ELSE IF StrLen(tq) > MAX_QUESTION_LENGTH THEN TooLongMsg(StrLen(tq))
    ELSE ""

\* FetchRejectionMsg without the test for an AbortError.
FetchRejectionMsgUnnamed(name, m) == NetworkMsg(m)

\* What the catch around fetch throws for a rejection named name.
FetchRejectionMsg(name, m) ==
    IF name = "AbortError" THEN TimeoutMsg ELSE NetworkMsg(m)

\* The message of the error thrown for a response that is not ok.
ErrorResponseMsg(r, body) ==
    LET fallback == IF r.statusText # "" THEN r.statusText
                    ELSE "HTTP " \o ToString(r.status)
        errorData == body.value
        err == Prop(errorData, "error")
        picked == OrElse(OptProp(err, "message"),
                         OrElse(OptProp(err, "code"), JStr("Unknown error")))
    IN  ApiErrorMsg(r.status,
                    IF ~body.parses \/ Nullish(errorData) THEN fallback
                    ELSE Display(picked))

\* responseData.candidates?.[0]?.content?.parts?.[0]?.text, for a responseData
\* that is neither null nor undefined.
AssistantAnswer(responseData) ==
    LET candidate == OptFirst(Prop(responseData, "candidates"))
        part == OptFirst(OptProp(OptProp(candidate, "content"), "parts"))
    IN  OptProp(part, "text")

Failed(m) == [completed |-> FALSE, text |-> m]

Completed(a) == [completed |-> TRUE, text |-> a]

\* The outcome of a response that is ok, once its body has been read: the
\* answer, or the message of the error thrown.
OkOutcome(body) ==
    IF ~body.parses THEN Failed(ParseFailedMsg)
    ELSE IF Nullish(body.value) THEN Failed(NullReadMsg)
    ELSE IF ~Truthy(AssistantAnswer(body.value)) THEN Failed(NoAnswerMsg)
    ELSE Completed(AssistantAnswer(body.value).v)

\* The outcome of a response, ok or not.
Classify(r, body) ==
    IF ~ResponseOk(r) THEN Failed(ErrorResponseMsg(r, body)) ELSE OkOutcome(body)

-----------------------------------------------------------------------------
(* Persisted state *)

\* JSON.stringify and JSON.parse of a value kept in localStorage.
JSONstringify(x) == [valid |-> TRUE, value |-> x]

JSONparse(text) == text.value

\* A localStorage entry is <<>> when the key is absent, << text >> otherwise.
Absent == <<>>

Stored(x) == << JSONstringify(x) >>

\* A stored text that is not JSON, such as the text of x cut short:
\* JSON.parse throws on it.
Corrupt(x) == [valid |-> FALSE, value |-> x]

\* The guarded read of a list (history, favorites): saved ? JSON.parse(saved)
\* : [], and [] when JSON.parse throws.
LoadList(saved) ==
    IF saved = Absent THEN <<>>
    ELSE IF ~saved[1].valid THEN <<>>
    ELSE JSONparse(saved[1])

\* What the guarded read of a list leaves in storage: the catch removes the key.
KeptAfterLoad(saved) ==
    IF saved # Absent /\ ~saved[1].valid THEN Absent ELSE saved

\* The guarded read of the theme: saved ? JSON.parse(saved) : false, and false
\* when JSON.parse throws.
LoadDarkMode(saved) ==
    IF saved = Absent THEN FALSE
    ELSE IF ~saved[1].valid THEN FALSE
    ELSE JSONparse(saved[1])

DEFAULT_DIFFICULTY == "beginner"

\* The read of the difficulty, which is stored as it is: saved || 'beginner'
LoadDifficulty(saved) == IF saved = Absent THEN DEFAULT_DIFFICULTY ELSE saved[1]

\* The options of the difficulty selector.
Difficulties == { "beginner", "intermediate", "advanced" }

\* new Date().toLocaleString()
LocaleString(t) == "at " \o ToString(t)

\* Entries left in storage by earlier sessions, newest first.
OldEntry(k) ==
    [id |-> StartTime - 2000 * k,
     question |-> << Run("o", 12) >>,
     answer |-> "Old answer",
     timestamp |-> LocaleString(StartTime - 2000 * k)]

OldHistory(k) == [i \in 1..k |-> OldEntry(i)]

InitialHistoryLengths == {0, HISTORY_CAP - 1}

-----------------------------------------------------------------------------
(* State *)

VARIABLES
    GEMINI_API_KEY,   \* the key the build was given
    storageFault,     \* how localStorage.setItem behaves: "none", or "quota" when
                      \* there is no room and it throws a QuotaExceededError
    now,              \* Date.now()
    question, answer, loading, error,
    history, favorites,
    toast,
    toastTimeoutRef,  \* <<>> or << deadline of the pending timer the ref names >>
    toastTimers,      \* deadlines of the toast timers still pending
    lastApiCall,
    localStorage,     \* [questionHistory, favorites, darkMode, difficulty]
    pc,               \* where handleGenerateClick is: "idle", "fetch", "json", "errorJson"
    closure,          \* what the running handler captured: trimmedQuestion, history
    timeoutId,        \* <<>> or << deadline of the abort timer >>
    response,         \* the response whose body is being read
    request,          \* the outbound request: "none" or "sent"
    incoming,         \* <<>> or << the body the transport is delivering >>
    cancelled,        \* aborted requests whose response is still on its way
    fetchCount,       \* calls of fetch so far
    page,             \* the React root: "loading" before the first render, "mounted",
                      \* or "crashed" once an error nobody caught has unmounted it
    console,          \* what console.error has been given
    darkMode, difficulty,
    text,             \* the argument of formatGeminiResponse
    elements,         \* what formatGeminiResponse returned
    formatted         \* whether it has returned

vars ==
    << GEMINI_API_KEY, storageFault, now, question, answer, loading, error,
       history, favorites, toast, toastTimeoutRef, toastTimers, lastApiCall,
       localStorage, pc, closure, timeoutId, response, request, incoming,
       cancelled, fetchCount, page, console, darkMode, difficulty, text,
       elements, formatted >>

root == << page, console >>

preferences == << darkMode, difficulty >>

rendering == << text, elements, formatted >>

NoClosure == [trimmedQuestion |-> <<>>, history |-> <<>>]

NoResponse == [status |-> 0, statusText |-> ""]

Init ==
    /\ GEMINI_API_KEY \in {PLACEHOLDER_KEY, "secret-key"}
    /\ storageFault \in {"none", "quota"}
    /\ now = StartTime
    /\ question = <<>>
    /\ answer = ""
    /\ loading = FALSE
    /\ error = ""
    /\ \E k \in InitialHistoryLengths :
          localStorage =
              [questionHistory |-> IF k = 0 THEN Absent ELSE Stored(OldHistory(k)),
               favorites |-> Absent,
               darkMode |-> Stored(FALSE),
               difficulty |-> << DEFAULT_DIFFICULTY >>]
    /\ history = LoadList(localStorage.questionHistory)
    /\ favorites = LoadList(localStorage.favorites)
    /\ darkMode = LoadDarkMode(localStorage.darkMode)
    /\ difficulty = LoadDifficulty(localStorage.difficulty)
    /\ page = "mounted"
    /\ console = {}
    /\ text = <<>>
    /\ elements = <<>>
    /\ formatted = FALSE
    /\ toast = ""
    /\ toastTimeoutRef = <<>>
    /\ toastTimers = {}
    /\ lastApiCall = 0
    /\ pc = "idle"
    /\ closure = NoClosure
    /\ timeoutId = <<>>
    /\ response = NoResponse
    /\ request = "none"
    /\ incoming = <<>>
    /\ cancelled = 0
    /\ fetchCount = 0

-----------------------------------------------------------------------------
(* Operations *)

\* onChange of the question field, which is disabled while loading.
TypeQuestion(q) ==
    /\ ~loading
    /\ question' = q
    /\ UNCHANGED << root, preferences, rendering, GEMINI_API_KEY, storageFault, now, answer, loading, error,
                    history, favorites, toast, toastTimeoutRef, toastTimers,
                    lastApiCall, localStorage, pc, closure, timeoutId, response,
                    request, incoming, cancelled, fetchCount >>

\* RateLimited with the interval compared by <= instead of <.
RateLimitedInclusive(t) == t - lastApiCall <= API_RATE_LIMIT_MS

\* RateLimited with the interval measured from the newest history entry, that
\* is from the end of the last answered submission.
RateLimitedSinceEntry(t) ==
    Len(history) > 0 /\ t - history[1].id < API_RATE_LIMIT_MS

\* now - lastApiCall < API_RATE_LIMIT_MS
RateLimited(t) == t - lastApiCall < API_RATE_LIMIT_MS

\* GenerateDisabled for a button that is never disabled.
GenerateNeverDisabled == FALSE

\* disabled={loading} on the generate button
GenerateDisabled == loading

\* Reject with the previous answer cleared before the checks.
RejectAndClear(m) ==
    /\ error' = m
    /\ answer' = ""
    /\ UNCHANGED << loading, lastApiCall, pc, closure, timeoutId, request,
                    fetchCount >>

\* An early return of handleGenerateClick: setError(m); return.
Reject(m) ==
    /\ error' = m
    /\ UNCHANGED << answer, loading, lastApiCall, pc, closure, timeoutId,
                    request, fetchCount >>

\* handleGenerateClick up to its first await: the checks, then the call.
Submit ==
    /\ ~GenerateDisabled
    /\ LET trimmedQuestion == Trim(question) IN
       IF ValidationError(trimmedQuestion) # "" THEN
           Reject(ValidationError(trimmedQuestion))
       ELSE IF GEMINI_API_KEY = PLACEHOLDER_KEY THEN
           Reject(NoApiKeyMsg)
       ELSE IF RateLimited(now) THEN
           Reject(RateLimitMsg)
       ELSE
           /\ fetchCount < MaxCalls
           /\ lastApiCall' = now
           /\ error' = ""
           /\ answer' = ""
           /\ loading' = TRUE
           /\ closure' = [trimmedQuestion |-> trimmedQuestion, history |-> history]
           /\ timeoutId' = << now + API_REQUEST_TIMEOUT >>
           /\ request' = "sent"
           /\ fetchCount' = fetchCount + 1
           /\ pc' = "fetch"
    /\ UNCHANGED << root, preferences, rendering, GEMINI_API_KEY, storageFault, now, question, history,
                    favorites, toast, toastTimeoutRef, toastTimers, localStorage,
                    response, incoming, cancelled >>

\* Fail with the call issued again instead of the error being shown.
FailAndRetry(m) ==
    /\ error' = error
    /\ loading' = TRUE
    /\ pc' = "fetch"
    /\ closure' = closure
    /\ timeoutId' = << now + API_REQUEST_TIMEOUT >>
    /\ response' = NoResponse
    /\ request' = "sent"
    /\ fetchCount' = fetchCount + 1
    /\ UNCHANGED << root, preferences, rendering, GEMINI_API_KEY, storageFault, now, question, answer, history,
                    favorites, toast, toastTimeoutRef, toastTimers, lastApiCall,
                    localStorage >>

\* Fail without the finally block: loading is left as it is.
FailStillLoading(m) ==
    /\ error' = CaughtMsg(m)
    /\ loading' = loading
    /\ pc' = "idle"
    /\ closure' = NoClosure
    /\ timeoutId' = <<>>
    /\ response' = NoResponse
    /\ request' = "none"
    /\ UNCHANGED << root, preferences, rendering, GEMINI_API_KEY, storageFault, now, question, answer, history,
                    favorites, toast, toastTimeoutRef, toastTimers, lastApiCall,
                    localStorage >>
    /\ fetchCount' = fetchCount

\* The catch and finally blocks of handleGenerateClick for an error thrown
\* with message m: the error is shown, nothing is called again.
Fail(m) ==
    /\ error' = CaughtMsg(m)
    /\ loading' = FALSE
    /\ pc' = "idle"
    /\ closure' = NoClosure
    /\ timeoutId' = <<>>
    /\ response' = NoResponse
    /\ request' = "none"
    /\ UNCHANGED << root, preferences, rendering, GEMINI_API_KEY, storageFault, now, question, answer, history,
                    favorites, toast, toastTimeoutRef, toastTimers, lastApiCall,
                    localStorage >>
    /\ fetchCount' = fetchCount

\* The abort timer fires while fetch is awaited: controller.abort() rejects
\* fetch with an AbortError; what the transport still delivers is dropped.
AbortTimeout ==
    /\ pc = "fetch"
    /\ timeoutId # <<>>
    /\ now >= timeoutId[1]
    /\ cancelled' = cancelled + 1
    /\ UNCHANGED incoming
    /\ Fail(FetchRejectionMsg("AbortError", "The user aborted a request."))

\* fetch rejects: the transport failed before any response.
NetworkFailure ==
    /\ pc = "fetch"
    /\ UNCHANGED << incoming, cancelled >>
    /\ Fail(FetchRejectionMsg("TypeError", "Failed to fetch"))

\* fetch resolves with the status line of a response whose body is on its
\* way; the abort timer is cleared and the body is awaited.
ResponseArrives(r, body) ==
    /\ pc = "fetch"
    /\ timeoutId' = <<>>
    /\ response' = r
    /\ incoming' = << body >>
    /\ pc' = IF ResponseOk(r) THEN "json" ELSE "errorJson"
    /\ UNCHANGED << root, preferences, rendering, GEMINI_API_KEY, storageFault, now, question, answer, loading,
                    error, history, favorites, toast, toastTimeoutRef,
                    toastTimers, lastApiCall, localStorage, closure, request,
                    cancelled, fetchCount >>

\* The entry saveToHistory builds for question q and answer a at time t.
NewEntry(q, a, t) ==
    [id |-> t, question |-> q, answer |-> a, timestamp |-> LocaleString(t)]

\* Updated with the new entry put behind the others.
UpdatedAtTail(newEntry, h) == Slice0(h \o << newEntry >>, HISTORY_CAP)

\* [newEntry, ...history].slice(0, 10)
Updated(newEntry, h) == Slice0(<< newEntry >> \o h, HISTORY_CAP)

\* ShowToastTimers without clearTimeout: the earlier timer stays pending.
ShowToastTimersLeaky == toastTimers \cup { now + TOAST_MS }

\* The toast timers pending after showToast: the one the ref names is
\* cleared, a new one is started.
ShowToastTimers ==
    (toastTimers \ { toastTimeoutRef[i] : i \in DOMAIN toastTimeoutRef })
        \cup { now + TOAST_MS }

\* Complete that saves the question as the field has it at completion.
CompleteWithField(a) ==
    LET updated ==
            Updated(NewEntry(Trim(question), a, now), closure.history)
    IN  /\ answer' = a
        /\ CASE storageFault = "none" ->
                    /\ history' = updated
                    /\ localStorage' =
                           [localStorage EXCEPT !.questionHistory = Stored(updated)]
             [] storageFault = "quota" ->
                    /\ history' = <<>>
                    /\ localStorage' =
                           [localStorage EXCEPT !.questionHistory = Absent]
        /\ toast' = AnswerToast
        /\ toastTimeoutRef' = << now + TOAST_MS >>
        /\ toastTimers' = ShowToastTimers
        /\ loading' = FALSE
        /\ pc' = "idle"
        /\ closure' = NoClosure
        /\ timeoutId' = <<>>
        /\ response' = NoResponse
        /\ request' = "none"
        /\ UNCHANGED << root, preferences, rendering, GEMINI_API_KEY, storageFault, now, question, error,
                        favorites, lastApiCall, fetchCount >>

\* The success path of handleGenerateClick for the answer a: setAnswer,
\* saveToHistory(trimmedQuestion, a) and its catch, showToast, finally.
Complete(a) ==
    LET updated ==
            Updated(NewEntry(closure.trimmedQuestion, a, now), closure.history)
    IN  /\ answer' = a
        /\ CASE storageFault = "none" ->
                    /\ history' = updated
                    /\ localStorage' =
                           [localStorage EXCEPT !.questionHistory = Stored(updated)]
             [] storageFault = "quota" ->
                    /\ history' = <<>>
                    /\ localStorage' =
                           [localStorage EXCEPT !.questionHistory = Absent]
        /\ toast' = AnswerToast
        /\ toastTimeoutRef' = << now + TOAST_MS >>
        /\ toastTimers' = ShowToastTimers
        /\ loading' = FALSE
        /\ pc' = "idle"
        /\ closure' = NoClosure
        /\ timeoutId' = <<>>
        /\ response' = NoResponse
        /\ request' = "none"
        /\ UNCHANGED << root, preferences, rendering, GEMINI_API_KEY, storageFault, now, question, error,
                        favorites, lastApiCall, fetchCount >>

\* response.json() settles: the body has been read, as JSON or not.
BodyArrives ==
    /\ pc \in {"json", "errorJson"}
    /\ incoming' = <<>>
    /\ UNCHANGED cancelled
    /\ LET outcome == Classify(response, incoming[1]) IN
       IF outcome.completed THEN Complete(outcome.text) ELSE Fail(outcome.text)

\* LateResponse for a handler that still listens to the aborted request and
\* shows what it brings.
LateResponseApplied ==
    /\ cancelled > 0
    /\ cancelled' = cancelled - 1
    /\ \E a \in AnswerTexts :
          /\ answer' = a
          /\ history' = Slice0(<< [id |-> now, question |-> Trim(question),
                                   answer |-> a,
                                   timestamp |-> "at " \o ToString(now)] >>
                                   \o history, HISTORY_CAP)
    /\ UNCHANGED << root, preferences, rendering, GEMINI_API_KEY, storageFault, now, question, loading, error,
                    favorites, toast, toastTimeoutRef, toastTimers, lastApiCall,
                    localStorage, pc, closure, timeoutId, response, request,
                    incoming, fetchCount >>

\* The transport's response to a request that was aborted: fetch has already
\* rejected, so nothing is waiting for it.
LateResponse ==
    /\ cancelled > 0
    /\ cancelled' = cancelled - 1
    /\ UNCHANGED << root, preferences, rendering, GEMINI_API_KEY, storageFault, now, question, answer, loading,
                    error, history, favorites, toast, toastTimeoutRef,
                    toastTimers, lastApiCall, localStorage, pc, closure,
                    timeoutId, response, request, incoming, fetchCount >>

\* ClearHistory without the removal of the stored key.
ClearHistoryInMemory ==
    /\ Len(history) > 0
    /\ history' = <<>>
    /\ toast' = ClearedToast
    /\ toastTimeoutRef' = << now + TOAST_MS >>
    /\ toastTimers' = (toastTimers \ { toastTimeoutRef[i] : i \in DOMAIN toastTimeoutRef })
                          \cup { now + TOAST_MS }
    /\ UNCHANGED << root, preferences, rendering, GEMINI_API_KEY, storageFault, now,
                    question, answer, loading, error, favorites, lastApiCall,
                    localStorage, pc, closure, timeoutId, response, request,
                    incoming, cancelled, fetchCount >>

\* ClearHistory that takes the favorites with the history.
ClearHistoryAndFavorites ==
    /\ Len(history) > 0
    /\ history' = <<>>
    /\ favorites' = <<>>
    /\ localStorage' = [localStorage EXCEPT !.questionHistory = Absent,
                                            !.favorites = Absent]
    /\ toast' = ClearedToast
    /\ toastTimeoutRef' = << now + TOAST_MS >>
    /\ toastTimers' = (toastTimers \ { toastTimeoutRef[i] : i \in DOMAIN toastTimeoutRef })
                          \cup { now + TOAST_MS }
    /\ UNCHANGED << root, preferences, rendering, GEMINI_API_KEY, storageFault, now,
                    question, answer, loading, error, lastApiCall, pc, closure,
                    timeoutId, response, request, incoming, cancelled, fetchCount >>

\* clearHistory, confirmed in the dialog; the button is shown with the list.
ClearHistory ==
    /\ Len(history) > 0
    /\ history' = <<>>
    /\ localStorage' = [localStorage EXCEPT !.questionHistory = Absent]
    /\ toast' = ClearedToast
    /\ toastTimeoutRef' = << now + TOAST_MS >>
    /\ toastTimers' = ShowToastTimers
    /\ UNCHANGED << root, preferences, rendering, GEMINI_API_KEY, storageFault, now, question, answer, loading,
                    error, favorites, lastApiCall, pc, closure, timeoutId,
                    response, request, incoming, cancelled, fetchCount >>

\* The deadline of the abort timer, when it is pending.
AbortDeadlines == { timeoutId[i] : i \in DOMAIN timeoutId }

\* The instants at which the clock is read: around the rate limit and the
\* request timeout after the last accepted call.
Instants ==
    { lastApiCall + d : d \in { API_RATE_LIMIT_MS - 1, API_RATE_LIMIT_MS,
                                API_REQUEST_TIMEOUT, API_REQUEST_TIMEOUT + 1 } }

\* Time passes up to instant t.  The abort timer fires when its deadline is
\* reached (AbortTimeout), so time does not pass it while it is pending.  A
\* toast timer whose deadline is reached on the way fires: setToast('').  The
\* ref keeps the id of a timer that has fired, and clearTimeout of such an id
\* does nothing: the model empties the ref instead.
Tick(t) ==
    /\ t > now
    /\ t <= StartTime + Horizon
    /\ \A d \in AbortDeadlines : t <= d
    /\ now' = t
    /\ toastTimers' = { d \in toastTimers : d > t }
    /\ toast' = IF toastTimers' = toastTimers THEN toast ELSE ""
    /\ toastTimeoutRef' =
           IF \E i \in DOMAIN toastTimeoutRef : toastTimeoutRef[i] <= t
           THEN <<>> ELSE toastTimeoutRef
    /\ UNCHANGED << root, preferences, rendering, GEMINI_API_KEY, storageFault, question, answer, loading,
                    error, history, favorites, lastApiCall, localStorage, pc,
                    closure, timeoutId, response, request, incoming, cancelled,
                    fetchCount >>

Next ==
    \/ \E q \in Questions : TypeQuestion(q)
    \/ Submit
    \/ AbortTimeout
    \/ NetworkFailure
    \/ \E r \in Statuses, body \in Bodies : ResponseArrives(r, body)
    \/ BodyArrives
    \/ LateResponse
    \/ ClearHistory
    \/ \E t \in Instants : Tick(t)

Spec == Init /\ [][Next]_vars

-----------------------------------------------------------------------------
(* Favorites *)

\* Favorites explored in one behaviour.
MaxFavorites == 2

\* prev.includes(q)
Includes(prev, q) == \E i \in DOMAIN prev : prev[i] = q

\* Toggled that adds q whether or not it is there.
ToggledAppendOnly(prev, q) == prev \o << q >>

\* prev.includes(q) ? prev.filter(fav => fav !== q) : [...prev, q]
Toggled(prev, q) ==
    IF Includes(prev, q) THEN SelectSeq(prev, LAMBDA fav : fav # q)
    ELSE prev \o << q >>

\* The texts that have a heart button: the question in the field when it is
\* not empty, the questions of the history list, the favorites.
HeartButtons ==
    (IF question # <<>> THEN { question } ELSE {})
        \cup { history[i].question : i \in DOMAIN history }
        \cup { favorites[i] : i \in DOMAIN favorites }

\* toggleFavorite(q).  The updater writes the new list to storage before it
\* returns it; when setItem throws, nothing catches the error, the state is not
\* updated and React unmounts the root.
ToggleFavorite(q) ==
    /\ page = "mounted"
    /\ Includes(favorites, q) \/ Len(favorites) < MaxFavorites
    /\ LET updated == Toggled(favorites, q) IN
       CASE storageFault = "none" ->
               /\ favorites' = updated
               /\ localStorage' = [localStorage EXCEPT !.favorites = Stored(updated)]
               /\ page' = page
         [] storageFault = "quota" ->
               /\ page' = "crashed"
               /\ UNCHANGED << favorites, localStorage >>
    /\ UNCHANGED << console, preferences, rendering, GEMINI_API_KEY, storageFault,
                    now, question, answer, loading, error, history, toast,
                    toastTimeoutRef, toastTimers, lastApiCall, pc, closure,
                    timeoutId, response, request, incoming, cancelled, fetchCount >>

\* The text a sample button puts into the field: the title of the problem
\* with its number, level and category, longer than the minimum.
Samples == { << Run("s", 4 * MIN_QUESTION_LENGTH) >> }

\* onClick of a sample button: setQuestion(text).  The button is not
\* disabled while loading.
PickSample(q) ==
    /\ question' = q
    /\ UNCHANGED << root, preferences, rendering, GEMINI_API_KEY, storageFault, now,
                    answer, loading, error, history, favorites, toast,
                    toastTimeoutRef, toastTimers, lastApiCall, localStorage, pc,
                    closure, timeoutId, response, request, incoming, cancelled,
                    fetchCount >>

\* onClick of the i-th favorite: setQuestion(fav), while loading too.
PickFavorite(i) ==
    /\ i \in DOMAIN favorites
    /\ question' = favorites[i]
    /\ UNCHANGED << root, preferences, rendering, GEMINI_API_KEY, storageFault, now,
                    answer, loading, error, history, favorites, toast,
                    toastTimeoutRef, toastTimers, lastApiCall, localStorage, pc,
                    closure, timeoutId, response, request, incoming, cancelled,
                    fetchCount >>

\* LoadFromHistory that shows the entry in place of the error.
LoadFromHistoryClearingError(i) ==
    /\ i \in DOMAIN history
    /\ question' = history[i].question
    /\ answer' = history[i].answer
    /\ error' = ""
    /\ UNCHANGED << root, preferences, rendering, GEMINI_API_KEY, storageFault, now,
                    loading, history, favorites, toast, toastTimeoutRef,
                    toastTimers, lastApiCall, localStorage, pc, closure,
                    timeoutId, response, request, incoming, cancelled, fetchCount >>

\* onClick of the i-th entry of the history list, while loading too:
\* loadFromHistory(item.question, item.answer).
LoadFromHistory(i) ==
    /\ i \in DOMAIN history
    /\ question' = history[i].question
    /\ answer' = history[i].answer
    /\ UNCHANGED << root, preferences, rendering, GEMINI_API_KEY, storageFault, now,
                    loading, error, history, favorites, toast, toastTimeoutRef,
                    toastTimers, lastApiCall, localStorage, pc, closure,
                    timeoutId, response, request, incoming, cancelled, fetchCount >>

\* The questions typed while favorites are explored: those that pass validation.
StoreQuestions == { q \in Questions : ValidationError(Trim(q)) = "" }

\* The reply explored with them: status 200 and an answer.
StoreStatuses == { r \in Statuses : ResponseOk(r) }

StoreBodies == { Parsed(Reply(JStr(a))) : a \in AnswerTexts }

\* The histories found in storage when favorites are explored: none, one
\* short of the cap, and a full one.
StoreHistoryLengths == InitialHistoryLengths \cup { HISTORY_CAP }

StoreInit ==
    /\ GEMINI_API_KEY \in {PLACEHOLDER_KEY, "secret-key"}
    /\ storageFault \in {"none", "quota"}
    /\ now = StartTime
    /\ question = <<>>
    /\ answer = ""
    /\ loading = FALSE
    /\ error = ""
    /\ \E k \in StoreHistoryLengths :
          localStorage =
              [questionHistory |-> IF k = 0 THEN Absent ELSE Stored(OldHistory(k)),
               favorites |-> Absent,
               darkMode |-> Stored(FALSE),
               difficulty |-> << DEFAULT_DIFFICULTY >>]
    /\ history = LoadList(localStorage.questionHistory)
    /\ favorites = LoadList(localStorage.favorites)
    /\ darkMode = LoadDarkMode(localStorage.darkMode)
    /\ difficulty = LoadDifficulty(localStorage.difficulty)
    /\ page = "mounted"
    /\ console = {}
    /\ text = <<>>
    /\ elements = <<>>
    /\ formatted = FALSE
    /\ toast = ""
    /\ toastTimeoutRef = <<>>
    /\ toastTimers = {}
    /\ lastApiCall = 0
    /\ pc = "idle"
    /\ closure = NoClosure
    /\ timeoutId = <<>>
    /\ response = NoResponse
    /\ request = "none"
    /\ incoming = <<>>
    /\ cancelled = 0
    /\ fetchCount = 0

\* The session with its favorites, within one rate-limit interval: questions
\* are typed or picked from the samples, the favorites and the history, one
\* is submitted and answered or fails, the history is cleared, hearts are
\* clicked.  A page that has crashed takes no more input.
Mounted == page = "mounted"

StoreNext ==
    \/ \E q \in StoreQuestions : Mounted /\ TypeQuestion(q)
    \/ \E q \in Samples : Mounted /\ PickSample(q)
    \/ \E i \in 1..MaxFavorites : Mounted /\ PickFavorite(i)
    \/ \E i \in 1..HISTORY_CAP : Mounted /\ LoadFromHistory(i)
    \/ Mounted /\ Submit
    \/ Mounted /\ NetworkFailure
    \/ \E r \in StoreStatuses, body \in StoreBodies : Mounted /\ ResponseArrives(r, body)
    \/ Mounted /\ BodyArrives
    \/ Mounted /\ ClearHistory
    \/ \E q \in HeartButtons : ToggleFavorite(q)

StoreSpec == StoreInit /\ [][StoreNext]_vars

-----------------------------------------------------------------------------
(* Start-up and preferences *)

HistoryLoadError == "Error loading history:"

FavoritesLoadError == "Error loading favorites:"

\* What storage can hold under each key when the page is opened: nothing, a
\* value an earlier session wrote, or a text that is not JSON.
StoredHistories == { Absent, Stored(OldHistory(2)), << Corrupt(OldHistory(1)) >> }

StoredFavorites ==
    { Absent, Stored(<< OldEntry(1).question >>), << Corrupt(<< OldEntry(2).question >>) >> }

StoredDarkModes == { Absent, Stored(TRUE), Stored(FALSE), << Corrupt(TRUE) >> }

StoredDifficulties == { Absent } \cup { << d >> : d \in Difficulties }

\* The page before its first render.
StartInit ==
    /\ GEMINI_API_KEY \in {PLACEHOLDER_KEY, "secret-key"}
    /\ storageFault \in {"none", "quota"}
    /\ now = StartTime
    /\ question = <<>>
    /\ answer = ""
    /\ loading = FALSE
    /\ error = ""
    /\ localStorage \in [questionHistory : StoredHistories,
                         favorites : StoredFavorites,
                         darkMode : StoredDarkModes,
                         difficulty : StoredDifficulties]
    /\ history = <<>>
    /\ favorites = <<>>
    /\ darkMode = FALSE
    /\ difficulty = DEFAULT_DIFFICULTY
    /\ page = "loading"
    /\ console = {}
    /\ toast = ""
    /\ toastTimeoutRef = <<>>
    /\ toastTimers = {}
    /\ lastApiCall = 0
    /\ pc = "idle"
    /\ closure = NoClosure
    /\ timeoutId = <<>>
    /\ response = NoResponse
    /\ request = "none"
    /\ incoming = <<>>
    /\ cancelled = 0
    /\ fetchCount = 0
    /\ text = <<>>
    /\ elements = <<>>
    /\ formatted = FALSE

\* JSON.parse throws on what the key holds.
ParseThrows(saved) == saved # Absent /\ ~saved[1].valid

\* Mount with one try around the four reads: a key that does not parse puts
\* every key at its default.
MountAllOrNothing ==
    /\ page = "loading"
    /\ LET ls == localStorage
           bad == \/ ParseThrows(ls.questionHistory) \/ ParseThrows(ls.favorites)
                  \/ ParseThrows(ls.darkMode)
           h == IF bad THEN <<>> ELSE LoadList(ls.questionHistory)
           f == IF bad THEN <<>> ELSE LoadList(ls.favorites)
           dm == IF bad THEN FALSE ELSE LoadDarkMode(ls.darkMode)
           df == IF bad THEN DEFAULT_DIFFICULTY ELSE LoadDifficulty(ls.difficulty)
       IN  /\ history' = h
           /\ favorites' = f
           /\ darkMode' = dm
           /\ difficulty' = df
           /\ console' = console
           /\ CASE storageFault = "none" ->
                      /\ localStorage' =
                             [questionHistory |-> KeptAfterLoad(ls.questionHistory),
                              favorites |-> KeptAfterLoad(ls.favorites),
                              darkMode |-> Stored(dm),
                              difficulty |-> << df >>]
                      /\ page' = "mounted"
                [] storageFault = "quota" ->
                      /\ localStorage' = ls
                      /\ page' = "crashed"
    /\ UNCHANGED << rendering, GEMINI_API_KEY, storageFault, now, question, answer,
                    loading, error, toast, toastTimeoutRef, toastTimers,
                    lastApiCall, pc, closure, timeoutId, response, request,
                    incoming, cancelled, fetchCount >>

\* The first render and its effects: the four useState initialisers read
\* their keys, each in its own try; the catch of a list logs the error and
\* removes the key; then the two effects write the theme and the difficulty
\* back.  Nothing catches what setItem throws in an effect: React unmounts
\* the root.
Mount ==
    /\ page = "loading"
    /\ LET ls == localStorage
           dm == LoadDarkMode(ls.darkMode)
           df == LoadDifficulty(ls.difficulty)
           read == [ls EXCEPT !.questionHistory = KeptAfterLoad(@),
                              !.favorites = KeptAfterLoad(@)]
       IN  /\ history' = LoadList(ls.questionHistory)
           /\ favorites' = LoadList(ls.favorites)
           /\ darkMode' = dm
           /\ difficulty' = df
           /\ console' =
                  console
                      \cup (IF ParseThrows(ls.questionHistory)
                            THEN { HistoryLoadError } ELSE {})
                      \cup (IF ParseThrows(ls.favorites)
                            THEN { FavoritesLoadError } ELSE {})
           /\ CASE storageFault = "none" ->
                      /\ localStorage' = [read EXCEPT !.darkMode = Stored(dm),
                                                      !.difficulty = << df >>]
                      /\ page' = "mounted"
                [] storageFault = "quota" ->
                      /\ localStorage' = read
                      /\ page' = "crashed"
    /\ UNCHANGED << rendering, GEMINI_API_KEY, storageFault, now, question, answer,
                    loading, error, toast, toastTimeoutRef, toastTimers,
                    lastApiCall, pc, closure, timeoutId, response, request,
                    incoming, cancelled, fetchCount >>

\* setDarkMode(!darkMode) and the effect that follows the render.
ToggleDarkMode ==
    /\ page = "mounted"
    /\ darkMode' = ~darkMode
    /\ CASE storageFault = "none" ->
               /\ localStorage' = [localStorage EXCEPT !.darkMode = Stored(~darkMode)]
               /\ page' = page
         [] storageFault = "quota" ->
               /\ localStorage' = localStorage
               /\ page' = "crashed"
    /\ UNCHANGED << console, difficulty, rendering, GEMINI_API_KEY, storageFault,
                    now, question, answer, loading, error, history, favorites,
                    toast, toastTimeoutRef, toastTimers, lastApiCall, pc, closure,
                    timeoutId, response, request, incoming, cancelled, fetchCount >>

\* setDifficulty(d) for another option of the selector, and the effect that
\* follows the render.
SetDifficulty(d) ==
    /\ page = "mounted"
    /\ d # difficulty
    /\ difficulty' = d
    /\ CASE storageFault = "none" ->
               /\ localStorage' = [localStorage EXCEPT !.difficulty = << d >>]
               /\ page' = page
         [] storageFault = "quota" ->
               /\ localStorage' = localStorage
               /\ page' = "crashed"
    /\ UNCHANGED << console, darkMode, rendering, GEMINI_API_KEY, storageFault,
                    now, question, answer, loading, error, history, favorites,
                    toast, toastTimeoutRef, toastTimers, lastApiCall, pc, closure,
                    timeoutId, response, request, incoming, cancelled, fetchCount >>

StartNext ==
    \/ Mount
    \/ ToggleDarkMode
    \/ \E d \in Difficulties : SetDifficulty(d)

StartSpec == StartInit /\ [][StartNext]_vars

-----------------------------------------------------------------------------
(* formatGeminiResponse *)

(* The formatter works on characters: here a text is a sequence of          *)
(* one-character strings.                                                   *)

\* Lines of the texts formatted.
MaxLines == 4

Newline == "\n"

\* The backquote character, which a string of this notation cannot hold.
Backquote == "BACKQUOTE"

Fence == << Backquote, Backquote, Backquote >>

Python == << "p", "y", "t", "h", "o", "n" >>

\* s.startsWith(p)
StartsWith(s, p) == Len(s) >= Len(p) /\ SubSeq(s, 1, Len(p)) = p

RECURSIVE TrimLeft(_)
TrimLeft(s) ==
    IF s = <<>> THEN <<>>
    ELSE IF IsSpace(Head(s)) THEN TrimLeft(Tail(s))
    ELSE s

RECURSIVE TrimRight(_)
TrimRight(s) ==
    IF s = <<>> THEN <<>>
    ELSE IF IsSpace(s[Len(s)]) THEN TrimRight(SubSeq(s, 1, Len(s) - 1))
    ELSE s

\* s.trim(), on characters
TrimText(s) == TrimRight(TrimLeft(s))

\* s.replace(p, ''): the first occurrence of p is taken out.
RECURSIVE ReplaceFirst(_, _)
ReplaceFirst(s, p) ==
    IF s = <<>> THEN <<>>
    ELSE IF StartsWith(s, p) THEN SubSeq(s, Len(p) + 1, Len(s))
    ELSE << Head(s) >> \o ReplaceFirst(Tail(s), p)

\* s.replace(/\*\*/g, ''): every "**" is taken out, from left to right.
RECURSIVE RemoveBold(_)
RemoveBold(s) ==
    IF s = <<>> THEN <<>>
    ELSE IF StartsWith(s, << "*", "*" >>) THEN RemoveBold(SubSeq(s, 3, Len(s)))
    ELSE << Head(s) >> \o RemoveBold(Tail(s))

\* s.replace(/^\*\s+/, ''): a "*" at the very start and the whitespace behind
\* it, when there is some, are taken out.
RemoveMarker(s) ==
    IF Len(s) >= 2 /\ s[1] = "*" /\ IsSpace(s[2]) THEN TrimLeft(Tail(s)) ELSE s

\* text.split('\n')
RECURSIVE Split(_, _)
Split(t, line) ==
    IF t = <<>> THEN << line >>
    ELSE IF Head(t) = Newline THEN << line >> \o Split(Tail(t), <<>>)
    ELSE Split(Tail(t), Append(line, Head(t)))

\* lines.join('\n')
RECURSIVE Join(_)
Join(ls) ==
    IF ls = <<>> THEN <<>>
    ELSE IF Len(ls) = 1 THEN ls[1]
    ELSE ls[1] \o << Newline >> \o Join(Tail(ls))

\* The elements pushed.
CodeElement(language, codeBlock) ==
    [type |-> "code",
     language |-> IF language # <<>> THEN language ELSE Python,
     code |-> TrimText(codeBlock)]

ListElement(listItems) == [type |-> "list", items |-> listItems]

TextElement(type, t) == [type |-> type, text |-> t]

\* The variables of formatGeminiResponse before the first line.
FormatStart ==
    [elements |-> <<>>, codeBlock |-> <<>>, codeLanguage |-> <<>>,
     inCodeBlock |-> FALSE, listItems |-> <<>>, isInList |-> FALSE]

\* A line starting with the fence: the block is closed and pushed, or opened.
FenceLine(st, line) ==
    IF st.inCodeBlock THEN
        [st EXCEPT !.inCodeBlock = FALSE,
                   !.elements = Append(@, CodeElement(st.codeLanguage, st.codeBlock)),
                   !.codeBlock = <<>>,
                   !.codeLanguage = <<>>]
    ELSE
        [st EXCEPT !.inCodeBlock = TRUE,
                   !.codeLanguage =
                       IF TrimText(ReplaceFirst(line, Fence)) # <<>>
                       THEN TrimText(ReplaceFirst(line, Fence)) ELSE Python]

\* CloseList that pushes the list and keeps its items.
CloseListKeepItems(st, line) ==
    IF st.isInList /\ ~StartsWith(TrimText(line), << "*" >>) THEN
        [st EXCEPT !.elements = IF st.listItems # <<>>
                                THEN Append(@, ListElement(st.listItems)) ELSE @,
                   !.isInList = FALSE]
    ELSE st

\* The list is closed when the line does not start with "*".
CloseList(st, line) ==
    IF st.isInList /\ ~StartsWith(TrimText(line), << "*" >>) THEN
        [st EXCEPT !.elements = IF st.listItems # <<>>
                                THEN Append(@, ListElement(st.listItems)) ELSE @,
                   !.listItems = <<>>,
                   !.isInList = FALSE]
    ELSE st

\* The item of a bullet line.
CleanItem(line) == RemoveBold(TrimText(RemoveMarker(line)))

\* A line outside a code block, the list closed when this line closes it.
PlainLine(st, line) ==
    IF StartsWith(TrimText(line), << "*", " " >>) THEN
        [st EXCEPT !.isInList = TRUE, !.listItems = Append(@, CleanItem(line))]
    ELSE IF StartsWith(line, << "#", "#", "#", " " >>) THEN
        [st EXCEPT !.elements =
            Append(@, TextElement("h3",
                TrimText(ReplaceFirst(line, << "#", "#", "#", " " >>))))]
    ELSE IF StartsWith(line, << "#", "#", " " >>) THEN
        [st EXCEPT !.elements =
            Append(@, TextElement("h2", TrimText(ReplaceFirst(line, << "#", "#", " " >>))))]
    ELSE IF StartsWith(line, << "#", " " >>) THEN
        [st EXCEPT !.elements =
            Append(@, TextElement("h1", TrimText(ReplaceFirst(line, << "#", " " >>))))]
    ELSE IF Len(TrimText(line)) > 0 THEN
        [st EXCEPT !.elements = Append(@, TextElement("paragraph", TrimText(line)))]
    ELSE st

\* The body of lines.forEach for one line.
ForEachLine(st, line) ==
    IF StartsWith(line, Fence) THEN FenceLine(st, line)
    ELSE IF st.inCodeBlock THEN
        [st EXCEPT !.codeBlock = @ \o line \o << Newline >>]
    ELSE PlainLine(CloseList(st, line), line)

RECURSIVE ForEach(_, _)
ForEach(st, lines) ==
    IF lines = <<>> THEN st ELSE ForEach(ForEachLine(st, Head(lines)), Tail(lines))

\* After the last line: the list still open is pushed, then the code block
\* still open when something was put into it.
AfterLines(st) ==
    LET listed == IF st.listItems # <<>>
                  THEN Append(st.elements, ListElement(st.listItems))
                  ELSE st.elements
    IN  IF st.inCodeBlock /\ st.codeBlock # <<>>
        THEN Append(listed, CodeElement(st.codeLanguage, st.codeBlock))
        ELSE listed

formatGeminiResponse(t) ==
    IF t = <<>> THEN <<>> ELSE AfterLines(ForEach(FormatStart, Split(t, <<>>)))

\* The lines the texts are made of: an empty line, a fence without and with a
\* language, an indented line, a bullet, a line in bold, a heading, a plain
\* line.
LineKinds ==
    { <<>>,
      Fence,
      Fence \o << "j", "s" >>,
      << " ", " ", "x" >>,
      << "*", " ", "a" >>,
      << "*", "*", "b", "*", "*" >>,
      << "#", "#", " ", "T" >>,
      << "y" >> }

\* The sequences of 1 to k lines.
RECURSIVE LineSeqs(_)
LineSeqs(k) ==
    IF k = 0 THEN { <<>> }
    ELSE LET shorter == LineSeqs(k - 1)
         IN  shorter \cup { Append(ls, l) : ls \in shorter, l \in LineKinds }

\* The answers formatted.
Texts == { Join(ls) : ls \in LineSeqs(MaxLines) }

\* An answer is there to be rendered.
FormatInit ==
    /\ GEMINI_API_KEY = "secret-key"
    /\ storageFault = "none"
    /\ now = StartTime
    /\ question = <<>>
    /\ answer = ""
    /\ loading = FALSE
    /\ error = ""
    /\ localStorage = [questionHistory |-> Absent,
                       favorites |-> Absent,
                       darkMode |-> Stored(FALSE),
                       difficulty |-> << DEFAULT_DIFFICULTY >>]
    /\ history = <<>>
    /\ favorites = <<>>
    /\ darkMode = FALSE
    /\ difficulty = DEFAULT_DIFFICULTY
    /\ page = "mounted"
    /\ console = {}
    /\ toast = ""
    /\ toastTimeoutRef = <<>>
    /\ toastTimers = {}
    /\ lastApiCall = 0
    /\ pc = "idle"
    /\ closure = NoClosure
    /\ timeoutId = <<>>
    /\ response = NoResponse
    /\ request = "none"
    /\ incoming = <<>>
    /\ cancelled = 0
    /\ fetchCount = 0
    /\ text \in Texts
    /\ elements = <<>>
    /\ formatted = FALSE

\* FormattedResponseRenderer calls formatGeminiResponse(content).
Format ==
    /\ ~formatted
    /\ elements' = formatGeminiResponse(text)
    /\ formatted' = TRUE
    /\ UNCHANGED << text, root, preferences, GEMINI_API_KEY, storageFault, now,
                    question, answer, loading, error, history, favorites, toast,
                    toastTimeoutRef, toastTimers, lastApiCall, localStorage, pc,
                    closure, timeoutId, response, request, incoming, cancelled,
                    fetchCount >>

FormatNext == Format

FormatSpec == FormatInit /\ [][FormatNext]_vars

-----------------------------------------------------------------------------
(* showToast *)

\* Messages given to showToast.
ToastMessages == { AnswerToast, StorageFullToast, ClearedToast }

\* showToast(message): the timer the ref names is cleared, the message is
\* set, a timer of 3000 ms is started and the ref names it.
ShowToast(m) ==
    /\ toast' = m
    /\ toastTimeoutRef' = << now + TOAST_MS >>
    /\ toastTimers' = ShowToastTimers
    /\ UNCHANGED << root, preferences, rendering, GEMINI_API_KEY, storageFault, now,
                    question, answer, loading, error, history, favorites,
                    lastApiCall, localStorage, pc, closure, timeoutId, response,
                    request, incoming, cancelled, fetchCount >>

\* The instants at which the toast is looked at: every third of its lifetime.
ToastInstants == { now + TOAST_MS \div 3 }

\* A page on which nothing happens but toasts.
ToastInit ==
    /\ GEMINI_API_KEY = "secret-key"
    /\ storageFault = "none"
    /\ now = StartTime
    /\ question = <<>>
    /\ answer = ""
    /\ loading = FALSE
    /\ error = ""
    /\ localStorage = [questionHistory |-> Absent,
                       favorites |-> Absent,
                       darkMode |-> Stored(FALSE),
                       difficulty |-> << DEFAULT_DIFFICULTY >>]
    /\ history = <<>>
    /\ favorites = <<>>
    /\ darkMode = FALSE
    /\ difficulty = DEFAULT_DIFFICULTY
    /\ page = "mounted"
    /\ console = {}
    /\ toast = ""
    /\ toastTimeoutRef = <<>>
    /\ toastTimers = {}
    /\ lastApiCall = 0
    /\ pc = "idle"
    /\ closure = NoClosure
    /\ timeoutId = <<>>
    /\ response = NoResponse
    /\ request = "none"
    /\ incoming = <<>>
    /\ cancelled = 0
    /\ fetchCount = 0
    /\ text = <<>>
    /\ elements = <<>>
    /\ formatted = FALSE

ToastNext ==
    \/ \E m \in ToastMessages : ShowToast(m)
    \/ \E t \in ToastInstants : Tick(t)

ToastSpec == ToastInit /\ [][ToastNext]_vars

-----------------------------------------------------------------------------
(* Steps and sets the properties speak about *)

\* A submit: handleGenerateClick runs its checks.  (A submit that repeats the
\* message already shown changes nothing and is no step.)
SubmitStep == pc = "idle" /\ (error' # error \/ fetchCount' # fetchCount)

\* A submit that passed every check and called fetch.
AcceptedStep == pc = "idle" /\ pc' = "fetch"

\* The handler finishes with an answer, or with an error.
CompletedStep == pc # "idle" /\ pc' = "idle" /\ error' = ""

FailedStep == pc # "idle" /\ pc' = "idle" /\ error' # ""

\* The length of the question without its surrounding whitespace.
TrimmedLength == StrLen(Trim(question))

ValidationMsgs ==
    { EmptyQuestionMsg, TooShortMsg }
        \cup { TooLongMsg(StrLen(Trim(q))) : q \in Questions \cup {question} }

-----------------------------------------------------------------------------
(* C1 *)

\* C1: a successful submission whose history write goes through, with no
\* clear of the history since it was submitted, puts its entry at the head of
\* history, keeps the earlier entries behind it in their order and drops the
\* oldest one when there were already 10; history never holds more than 10.
C1_HistoryCapAndOrder ==
    /\ [](Len(history) <= HISTORY_CAP)
    /\ [][ (CompletedStep /\ storageFault = "none" /\ closure.history = history) =>
              /\ Len(history') = IF Len(history) < HISTORY_CAP
                                 THEN Len(history) + 1 ELSE HISTORY_CAP
              /\ history'[1].id = now
              /\ history'[1].question = closure.trimmedQuestion
              /\ history'[1].answer = answer'
              /\ \A i \in 2..Len(history') : history'[i] = history[i - 1] ]_vars

\* Two submissions of this session on top of 9 earlier entries: the cap was
\* exceeded and the oldest entry is gone.
C1_Witness ==
    /\ Len(history) = HISTORY_CAP
    /\ history[2].id >= StartTime
    /\ history[1].id >= history[2].id + API_RATE_LIMIT_MS
    /\ history[HISTORY_CAP] = OldEntry(HISTORY_CAP - 2)

-----------------------------------------------------------------------------
(* C2 *)

\* C2: fetch is called only when at least 1000 ms have passed since the last
\* accepted submit; a submit gets the rate-limit message only when less than
\* 1000 ms have passed, and then nothing is sent.
C2_Throttle ==
    [][ /\ (fetchCount' # fetchCount) => now - lastApiCall >= API_RATE_LIMIT_MS
        /\ (SubmitStep /\ error' = RateLimitMsg) =>
              /\ now - lastApiCall < API_RATE_LIMIT_MS
              /\ fetchCount' = fetchCount
              /\ request' = request
              /\ pc' = "idle"
        /\ (SubmitStep /\ now - lastApiCall >= API_RATE_LIMIT_MS
              /\ ValidationError(Trim(question)) = ""
              /\ GEMINI_API_KEY # PLACEHOLDER_KEY) =>
              /\ fetchCount' = fetchCount + 1
              /\ request' = "sent" ]_vars

\* A second submit 999 ms after the first one was accepted, throttled.
C2_Witness ==
    /\ error = RateLimitMsg
    /\ fetchCount = 1
    /\ now = lastApiCall + API_RATE_LIMIT_MS - 1
    /\ request = "none"

-----------------------------------------------------------------------------
(* C3 *)

-----------------------------------------------------------------------------
(* C4 *)

\* C4: no call waits for its response beyond 30000 ms after it was made; a
\* call is aborted only at that deadline, and then the handler ends with the
\* timeout message, which is not the message of a network failure.
C4_TimeoutClassification ==
    /\ [](pc = "fetch" => now <= lastApiCall + API_REQUEST_TIMEOUT)
    /\ [][ /\ (cancelled' > cancelled) =>
                 /\ pc = "fetch"
                 /\ now >= lastApiCall + API_REQUEST_TIMEOUT
                 /\ FailedStep
                 /\ error' = CaughtMsg(TimeoutMsg)
                 /\ ~loading'
           /\ (pc = "fetch" /\ FailedStep /\ cancelled' = cancelled) =>
                 error' # CaughtMsg(TimeoutMsg) ]_vars

\* A call aborted at its deadline.
C4_Witness ==
    /\ error = CaughtMsg(TimeoutMsg)
    /\ cancelled = 1
    /\ now = lastApiCall + API_REQUEST_TIMEOUT
    /\ ~loading

-----------------------------------------------------------------------------
(* C5 *)

\* C5: the response to a request that was aborted changes neither the answer
\* nor the history, in memory or stored, nor the error shown.
C5_LateResponseDiscarded ==
    [][ (cancelled' < cancelled) =>
           UNCHANGED << answer, history, localStorage, error, loading, pc,
                        toast, favorites >> ]_vars

\* The late response has come and gone; the timeout is still what is shown.
C5_Witness ==
    /\ error = CaughtMsg(TimeoutMsg)
    /\ cancelled = 0
    /\ answer = ""
    /\ fetchCount = 1

-----------------------------------------------------------------------------
(* C6 *)

\* C6: a submission that called fetch is over, the loading flag false again,
\* within 30000 ms of the call, the reading of the response body included.
C6_BoundedTermination == loading => now <= lastApiCall + API_REQUEST_TIMEOUT

-----------------------------------------------------------------------------
(* C7 *)

\* C7: fetch is called only when no request is in flight and no submission
\* is pending; a request is in flight exactly while the handler is pending.
C7_OnePending ==
    /\ []((request = "sent") <=> (pc # "idle"))
    /\ []((request = "sent") <=> loading)
    /\ [][ (fetchCount' # fetchCount) =>
              (request = "none" /\ pc = "idle" /\ ~loading) ]_vars

\* A submission that has been pending for longer than the rate limit, with
\* the question still in the field.
C7_Witness ==
    /\ pc = "fetch"
    /\ request = "sent"
    /\ now - lastApiCall >= API_RATE_LIMIT_MS
    /\ ValidationError(Trim(question)) = ""

-----------------------------------------------------------------------------
(* C8 *)

\* C8: fetch is called once by a submit that passes validation, the key
\* check and the rate limit, and by nothing else: not by a submit that fails a
\* check, and not by the end of a submission, failed or not.
C8_OneAttempt ==
    [][ /\ AcceptedStep => fetchCount' = fetchCount + 1
        /\ (fetchCount' # fetchCount) => (AcceptedStep /\ fetchCount' = fetchCount + 1)
        /\ AcceptedStep =>
              /\ ValidationError(Trim(question)) = ""
              /\ GEMINI_API_KEY # PLACEHOLDER_KEY
              /\ now - lastApiCall >= API_RATE_LIMIT_MS
        /\ FailedStep =>
              (fetchCount' = fetchCount /\ request' = "none" /\ ~loading') ]_vars

\* A submission that failed for want of an answer, after its one call.
C8_Witness ==
    /\ error = CaughtMsg(NoAnswerMsg)
    /\ fetchCount = 1
    /\ request = "none"
    /\ pc = "idle"

-----------------------------------------------------------------------------
(* C9 *)

\* The text at candidates[0].content.parts[0].text of a parsed body, "" when
\* a link of that path is absent or the text is empty.
ClaimedText(x) ==
    IF /\ x.t = "object" /\ "candidates" \in DOMAIN x.v
       /\ x.v.candidates.t = "array" /\ Len(x.v.candidates.v) > 0
       /\ LET c == x.v.candidates.v[1] IN
            /\ c.t = "object" /\ "content" \in DOMAIN c.v
            /\ c.v.content.t = "object" /\ "parts" \in DOMAIN c.v.content.v
            /\ c.v.content.v.parts.t = "array" /\ Len(c.v.content.v.parts.v) > 0
            /\ LET p == c.v.content.v.parts.v[1] IN
                 p.t = "object" /\ "text" \in DOMAIN p.v /\ p.v.text.t = "string"
    THEN x.v.candidates.v[1].v.content.v.parts.v[1].v.text.v
    ELSE ""

\* The message at error.message of a parsed body, "" when there is none.
ClaimedErrorMessage(x) ==
    IF /\ x.t = "object" /\ "error" \in DOMAIN x.v
       /\ x.v.error.t = "object" /\ "message" \in DOMAIN x.v.error.v
       /\ x.v.error.v.message.t = "string"
    THEN x.v.error.v.message.v
    ELSE ""

\* C9: when the body of a response has been read, a status that is not a
\* success gives a provider error (with the body's message when the body is
\* JSON that carries one, with the status text when the body is not JSON); a
\* success status with a body that is not JSON gives the malformed-response
\* error; a body that is JSON without a non-empty text at
\* candidates[0].content.parts[0].text gives the empty-answer error; any
\* other body gives its text as the answer.
C9_ClassificationOrder ==
    [][ (pc \in {"json", "errorJson"} /\ pc' = "idle") =>
           LET r == response
               b == incoming[1]
           IN  IF ~(r.status \in 200..299) THEN
                   /\ answer' = answer
                   /\ error' \notin {"", CaughtMsg(ParseFailedMsg),
                                     CaughtMsg(NoAnswerMsg)}
                   /\ (~b.parses /\ r.statusText # "") =>
                         error' = CaughtMsg(ApiErrorMsg(r.status, r.statusText))
                   /\ (b.parses /\ ClaimedErrorMessage(b.value) # "") =>
                         error' = CaughtMsg(ApiErrorMsg(r.status,
                                                        ClaimedErrorMessage(b.value)))
               ELSE IF ~b.parses THEN
                   error' = CaughtMsg(ParseFailedMsg) /\ answer' = answer
               ELSE IF ClaimedText(b.value) = "" THEN
                   error' = CaughtMsg(NoAnswerMsg) /\ answer' = answer
               ELSE
                   error' = "" /\ answer' = ClaimedText(b.value) ]_vars

-----------------------------------------------------------------------------
(* C10 *)

\* C10: a submit that ends with a validation message or with the rate-limit
\* message sends nothing and changes neither history, favorites, the answer,
\* the loading flag, the time of the last call nor what is stored.
C10_RejectedFrame ==
    [][ (SubmitStep /\ error' \in ValidationMsgs \cup {RateLimitMsg}) =>
           UNCHANGED << history, favorites, answer, loading, lastApiCall,
                        localStorage, fetchCount, request, pc, timeoutId >> ]_vars

\* A throttled submit after an answered one: the answer is still shown.
C10_Witness ==
    /\ error = RateLimitMsg
    /\ answer # ""
    /\ Len(history) > 0
    /\ lastApiCall < now
    /\ ~loading

-----------------------------------------------------------------------------
(* C11 *)

\* The checks that come before the rate limit pass for the question in the field.
PassesChecks ==
    ValidationError(Trim(question)) = "" /\ GEMINI_API_KEY # PLACEHOLDER_KEY

\* The newest history entry was saved less than 1000 ms ago: the last answered
\* submission completed less than 1000 ms ago.
JustCompleted ==
    Len(history) > 0 /\ now - history[1].id < API_RATE_LIMIT_MS

\* C11, as the code has it: the interval is measured from the moment the last
\* call was made.  lastApiCall is set by an accepted submit, to the time of
\* that submit, and by nothing else, the end of a submission included; a
\* submit that passes the other checks is throttled exactly when less than
\* 1000 ms have passed since the last call was made, so it is accepted 1000 ms
\* after that call even when the submission completed less than 1000 ms ago.
C11_ThrottleFromCall ==
    [][ /\ (lastApiCall' # lastApiCall) => (AcceptedStep /\ lastApiCall' = now)
        /\ (CompletedStep \/ FailedStep) => lastApiCall' = lastApiCall
        /\ (SubmitStep /\ PassesChecks) =>
              ((error' = RateLimitMsg) <=> (now - lastApiCall < API_RATE_LIMIT_MS))
        /\ (SubmitStep /\ PassesChecks /\ JustCompleted
              /\ now - lastApiCall >= API_RATE_LIMIT_MS) =>
              (AcceptedStep /\ fetchCount' = fetchCount + 1) ]_vars

\* A second call made in the millisecond in which the first submission
\* completed, 1000 ms or more after the first call.
C11_Witness ==
    /\ pc = "fetch"
    /\ fetchCount = 2
    /\ lastApiCall = now
    /\ Len(history) > 0
    /\ history[1].id = now

\* C11, as stated: a submit less than 1000 ms after the prior submission
\* completed makes no call and, when it passes the other checks, gets the
\* rate-limit message.
C11_ThrottleFromCompletion ==
    [][ (SubmitStep /\ JustCompleted) =>
           /\ fetchCount' = fetchCount
           /\ PassesChecks => error' = RateLimitMsg ]_vars

-----------------------------------------------------------------------------
(* C14 *)

\* C14: when a submission completes, the write of the history to storage
\* failing for want of space or not, its entry is in history afterwards.
C14_NewEntryKept ==
    [][ CompletedStep =>
           /\ Len(history') > 0
           /\ history'[1].question = closure.trimmedQuestion
           /\ history'[1].answer = answer' ]_vars

-----------------------------------------------------------------------------
(* C12 *)

\* The texts a heart button can carry in the sessions explored.
FavoriteTexts ==
    StoreQuestions \cup { Trim(q) : q \in StoreQuestions } \cup Samples
        \cup { OldEntry(k).question : k \in 1..HISTORY_CAP }

\* C12: for the favorites of every state reached and every text q, one
\* toggle of q flips the membership of q and of no other text, and a second
\* toggle of q gives back the membership every text had at first; favorites
\* change by such toggles only.
C12_ToggleTwice ==
    /\ [](\A q \in FavoriteTexts :
            LET once == Toggled(favorites, q)
                twice == Toggled(once, q)
            IN  /\ Includes(once, q) <=> ~Includes(favorites, q)
                /\ \A s \in FavoriteTexts \ {q} :
                      Includes(once, s) <=> Includes(favorites, s)
                /\ \A s \in FavoriteTexts :
                      Includes(twice, s) <=> Includes(favorites, s))
    /\ [][ (favorites' # favorites) =>
              \E q \in HeartButtons : favorites' = Toggled(favorites, q) ]_vars

\* Favorites that are empty again after a favorite was added and removed: the
\* stored list, absent at first, is there and is empty, next to a question
\* whose heart was clicked.
C12_Witness ==
    /\ favorites = <<>>
    /\ localStorage.favorites = Stored(<<>>)
    /\ question # <<>>
    /\ page = "mounted"

-----------------------------------------------------------------------------
(* C13 *)

\* C13: as long as the page is up, what storage holds under the history key
\* reads back as the history in memory, and what it holds under the favorites
\* key reads back as the favorites in memory: after a submission that was
\* answered, after a clear of the history, after a toggle of a favorite.
C13_Mirror ==
    (page = "mounted") =>
        /\ LoadList(localStorage.questionHistory) = history
        /\ LoadList(localStorage.favorites) = favorites

\* An answered submission of this session in the history, and two favorites,
\* all of them in storage.
C13_Witness ==
    /\ page = "mounted"
    /\ Len(history) > 0
    /\ history[1].id >= StartTime
    /\ localStorage.questionHistory = Stored(history)
    /\ Len(favorites) = 2
    /\ localStorage.favorites = Stored(favorites)

-----------------------------------------------------------------------------
(* C15 *)

\* C15: no error goes uncaught: the page is never taken down by one.
C15_NoUnhandledFault == page # "crashed"

-----------------------------------------------------------------------------
(* C16 *)

\* The first render has gone through.
MountStep == page = "loading" /\ page' = "mounted"

-----------------------------------------------------------------------------------------------------------------------------------------------------
(* What the properties of the formatter speak about *)

\* The lines of the text formatted.
Lines == Split(text, <<>>)

NonBlank(line) == TrimText(line) # <<>>

\* The lines that start with the fence, by position.
FenceIndexes(lines) == { i \in 1..Len(lines) : StartsWith(lines[i], Fence) }

\* The lines between an opening fence and what closes it, or the end.
InsideFence(lines) ==
    LET fences == FenceIndexes(lines)
    IN  { i \in (1..Len(lines)) \ fences :
            Cardinality({ j \in fences : j < i }) % 2 = 1 }

\* The lines with content inside a code block.
CodeLineIndexes(lines) == { i \in InsideFence(lines) : NonBlank(lines[i]) }

\* The lines with content outside of one, the fences apart.
PlainLineIndexes(lines) ==
    { i \in (1..Len(lines)) \ (FenceIndexes(lines) \cup InsideFence(lines)) :
        NonBlank(lines[i]) }

\* The bullet lines: outside a code block, "* " after the leading whitespace.
BulletIndexes(lines) ==
    { i \in PlainLineIndexes(lines) : StartsWith(TrimText(lines[i]), << "*", " " >>) }

Least(S) == CHOOSE i \in S : \A j \in S : i <= j

Greatest(S) == CHOOSE i \in S : \A j \in S : i >= j

\* The language a fence line declares, python when it declares none.
Declared(line) ==
    LET rest == TrimText(SubSeq(line, Len(Fence) + 1, Len(line)))
    IN  IF rest # <<>> THEN rest ELSE Python

\* The input lines an element accounts for.
Accounted(e) ==
    IF e.type = "list" THEN Len(e.items)
    ELSE IF e.type = "code" THEN
        LET held == Split(e.code, <<>>)
        IN  Cardinality({ i \in 1..Len(held) : NonBlank(held[i]) })
    ELSE 1

\* The lines the elements account for: those of the code elements when
\* code is TRUE, those of the others when it is FALSE.
RECURSIVE SumOver(_, _)
SumOver(es, code) ==
    IF es = <<>> THEN 0
    ELSE (IF (Head(es).type = "code") = code THEN Accounted(Head(es)) ELSE 0)
             + SumOver(Tail(es), code)

IsCode(e) == e.type = "code"

IsList(e) == e.type = "list"

-----------------------------------------------------------------------------
(* C17 *)

\* C17: for a text with a fenced block, the elements are those of the lines
\* before the opening fence, then one code element, then those of the lines
\* after the closing fence; the code is the lines between the two fences
\* joined by newlines with only its trailing whitespace removed, so with the
\* leading whitespace of its first line and its blank lines in place; the
\* language is the one the opening fence declares.
C17_FenceFidelity ==
    formatted =>
        LET lines == Lines
            fences == FenceIndexes(lines)
        IN  Cardinality(fences) >= 2 =>
                LET open == Least(fences)
                    close == Least(fences \ { open })
                    before == SubSeq(lines, 1, open - 1)
                    between == SubSeq(lines, open + 1, close - 1)
                    after == SubSeq(lines, close + 1, Len(lines))
                IN  elements =
                        formatGeminiResponse(Join(before))
                            \o << [type |-> "code",
                                   language |-> Declared(lines[open]),
                                   code |-> TrimRight(Join(between))] >>
                            \o formatGeminiResponse(Join(after))

-----------------------------------------------------------------------------
(* C18 *)

\* C18: the elements account for every line with content that is no fence,
\* once: the code elements hold as many lines with content as there are
\* between fences, the items of the lists and the headings and paragraphs are
\* as many as there are such lines outside; no list is empty and there are no
\* more code elements than opening fences, so that no element comes from a
\* blank line.
C18_Coverage ==
    formatted =>
        LET lines == Lines
        IN  /\ SumOver(elements, TRUE) = Cardinality(CodeLineIndexes(lines))
            /\ SumOver(elements, FALSE) = Cardinality(PlainLineIndexes(lines))
            /\ \A i \in DOMAIN elements :
                  IsList(elements[i]) => Len(elements[i].items) >= 1
            /\ 2 * Cardinality({ i \in DOMAIN elements : IsCode(elements[i]) })
                  <= Cardinality(FenceIndexes(lines)) + 1

\* A text of four lines formatted, one of them blank: a heading, a bullet
\* line and a paragraph line give a heading, a list of one item and a
\* paragraph, and the blank line gives nothing.
C18_Witness ==
    /\ formatted
    /\ Len(Lines) = 4
    /\ Cardinality(PlainLineIndexes(Lines)) = 3
    /\ Cardinality(BulletIndexes(Lines)) = 1
    /\ Len(elements) = 3
    /\ elements[1].type = "h2"
    /\ \E i \in DOMAIN elements : IsList(elements[i]) /\ Len(elements[i].items) = 1

-----------------------------------------------------------------------------
(* C19 *)

\* The bullet lines from position i on that follow each other without a gap.
RECURSIVE RunFrom(_, _, _)
RunFrom(lines, bullets, i) ==
    IF i \in bullets THEN << lines[i] >> \o RunFrom(lines, bullets, i + 1) ELSE <<>>

\* The positions at which a maximal run of bullet lines starts, in order.
RECURSIVE RunStarts(_, _, _)
RunStarts(lines, bullets, i) ==
    IF i > Len(lines) THEN <<>>
    ELSE IF i \in bullets /\ (i - 1) \notin bullets
         THEN << i >> \o RunStarts(lines, bullets, i + 1)
         ELSE RunStarts(lines, bullets, i + 1)

\* C19: the list elements are, in order, one for each maximal run of bullet
\* lines that follow each other, with one item for each line of the run, in
\* the order of the lines.
C19_ListGrouping ==
    formatted =>
        LET lines == Lines
            bullets == BulletIndexes(lines)
            lists == SelectSeq(elements, IsList)
            starts == RunStarts(lines, bullets, 1)
        IN  /\ Len(lists) = Len(starts)
            /\ \A k \in DOMAIN lists :
                  LET run == RunFrom(lines, bullets, starts[k])
                  IN  /\ Len(lists[k].items) = Len(run)
                      /\ \A n \in DOMAIN run : lists[k].items[n] = CleanItem(run[n])

-----------------------------------------------------------------------------
(* C20 *)

\* C20: for a text whose last fence is never closed, the last element is a
\* code element that holds the lines after that fence, whatever they are,
\* none included.
C20_UnterminatedFence ==
    formatted =>
        LET lines == Lines
            fences == FenceIndexes(lines)
        IN  Cardinality(fences) % 2 = 1 =>
                LET open == Greatest(fences)
                    held == SubSeq(lines, open + 1, Len(lines))
                IN  /\ Len(elements) > 0
                    /\ elements[Len(elements)].type = "code"
                    /\ elements[Len(elements)].language = Declared(lines[open])
                    /\ elements[Len(elements)].code = TrimText(Join(held))

-----------------------------------------------------------------------------
(* C21 *)

\* What kind of block an element is: a list, a code block, or the heading
\* or paragraph of one line.
Kind(e) == IF IsList(e) THEN "list" ELSE IF IsCode(e) THEN "code" ELSE "line"

\* The kinds of the blocks of the lines from position i on, in the order of
\* the lines: a run of bullet lines gives one list, a fenced block gives one
\* code block where it is closed, any other line with content gives one block.
RECURSIVE KindsFrom(_, _, _, _)
KindsFrom(lines, i, inFence, inRun) ==
    IF i > Len(lines) THEN <<>>
    ELSE IF StartsWith(lines[i], Fence) THEN
        (IF inFence THEN << "code" >> ELSE <<>>)
            \o KindsFrom(lines, i + 1, ~inFence, FALSE)
    ELSE IF inFence THEN KindsFrom(lines, i + 1, TRUE, FALSE)
    ELSE IF StartsWith(TrimText(lines[i]), << "*", " " >>) THEN
        (IF inRun THEN <<>> ELSE << "list" >>) \o KindsFrom(lines, i + 1, FALSE, TRUE)
    ELSE IF NonBlank(lines[i]) THEN << "line" >> \o KindsFrom(lines, i + 1, FALSE, FALSE)
    ELSE KindsFrom(lines, i + 1, FALSE, FALSE)

\* C21: for a text whose fences are all closed, the kinds of the elements
\* are, in order, those of the lines: the list of the bullet lines before a
\* line that is no bullet comes before the block of that line.
C21_InputOrder ==
    formatted =>
        LET lines == Lines
        IN  Cardinality(FenceIndexes(lines)) % 2 = 0 =>
                [k \in DOMAIN elements |-> Kind(elements[k])]
                    = KindsFrom(lines, 1, FALSE, FALSE)

-----------------------------------------------------------------------------
(* C22 *)

\* C22: no element is empty: a heading or paragraph has text, a list has
\* items and none of them is empty, a code block has code.
C22_NoEmptyBlock ==
    formatted =>
        \A k \in DOMAIN elements :
            IF IsList(elements[k])
            THEN /\ Len(elements[k].items) >= 1
                 /\ \A n \in DOMAIN elements[k].items : elements[k].items[n] # <<>>
            ELSE IF IsCode(elements[k]) THEN elements[k].code # <<>>
            ELSE elements[k].text # <<>>

-----------------------------------------------------------------------------
(* C23 *)

\* C23: a submission that fails leaves the history, what storage holds and
\* the favorites as they are, and after it the answer is empty and the error
\* is not.
C23_FailedFrame ==
    [][ FailedStep =>
           /\ history' = history
           /\ localStorage' = localStorage
           /\ favorites' = favorites
           /\ answer' = ""
           /\ error' # "" ]_vars

-----------------------------------------------------------------------------
(* C24 *)

\* C24: no step changes the history, in memory or in storage, and the
\* favorites, in memory or in storage, together: a submission that is
\* answered, with an old entry dropped at the cap or the history emptied for
\* want of space, and a clear of the history leave the favorites as they are,
\* and a toggle of a favorite leaves the history as it is.
C24_IndependentLifecycles ==
    [][ /\ (history' # history
              \/ localStorage'.questionHistory # localStorage.questionHistory) =>
              (favorites' = favorites /\ localStorage'.favorites = localStorage.favorites)
        /\ (favorites' # favorites
              \/ localStorage'.favorites # localStorage.favorites) =>
              (history' = history
                 /\ localStorage'.questionHistory = localStorage.questionHistory) ]_vars

\* A favorite that names a question of the history found at start-up, kept in
\* memory and in storage after the history was emptied.
C24_Witness ==
    /\ page = "mounted"
    /\ history = <<>>
    /\ localStorage.questionHistory = Absent
    /\ Len(favorites) > 0
    /\ favorites[1] = OldEntry(1).question
    /\ localStorage.favorites = Stored(favorites)

-----------------------------------------------------------------------------
(* C25 *)

\* C25: the ids of the entries of history decrease strictly from the head
\* to the tail, so no two entries have the same id.
C25_IdsUniqueOrdered ==
    \A i \in DOMAIN history : \A j \in DOMAIN history :
        i < j => history[i].id > history[j].id

-----------------------------------------------------------------------------
(* C26 *)

\* C26: when a submission completes and its history write goes through, the
\* history, in memory and in storage, is the new entry followed by entries
\* that were in the history just before: no entry that a clear has removed in
\* the meantime comes back.
C26_ClearNotUndone ==
    [][ (CompletedStep /\ storageFault = "none") =>
           /\ Len(history') > 0
           /\ \A i \in 2..Len(history') : \E j \in DOMAIN history : history[j] = history'[i]
           /\ LoadList(localStorage'.questionHistory) = history' ]_vars

-----------------------------------------------------------------------------
(* C27 *)

\* C27: the handler captures the trimmed question when the submit is
\* accepted, keeps it while the request is in flight whatever is put into
\* the question field, and the entry written when the submission completes
\* and the write goes through pairs that question with the answer.
C27_QuestionCaptured ==
    [][ /\ AcceptedStep => closure'.trimmedQuestion = Trim(question)
        /\ (pc # "idle" /\ pc' # "idle") =>
              closure'.trimmedQuestion = closure.trimmedQuestion
        /\ (CompletedStep /\ storageFault = "none") =>
              /\ Len(history') > 0
              /\ history'[1].question = closure.trimmedQuestion
              /\ history'[1].answer = answer'
              /\ answer' \in AnswerTexts ]_vars

\* The entry of an answered submission at the head of the history, with the
\* question that was typed, while the field holds a sample picked since.
C27_Witness ==
    /\ pc = "idle"
    /\ fetchCount = 1
    /\ Len(history) > 0
    /\ history[1].id >= StartTime
    /\ history[1].question \in { Trim(q) : q \in StoreQuestions }
    /\ history[1].answer = answer
    /\ question \in Samples

-----------------------------------------------------------------------------
(* C28 *)

\* C28: the error and the answer are never both shown.
C28_ErrorOrAnswer == ~(error # "" /\ answer # "")

-----------------------------------------------------------------------------
(* C29 *)

\* C29: loading is true exactly while a request is out and the handler waits
\* for it or reads its body; it becomes true only by a submit that passed
\* validation, the key check and the throttle; every outcome resets it, and a
\* submit that is rejected or throttled leaves it false and sends nothing.
C29_LoadingWhileInFlight ==
    /\ [](loading <=> (request = "sent" /\ pc # "idle"))
    /\ [][ /\ (loading' /\ ~loading) =>
                 /\ AcceptedStep
                 /\ PassesChecks
                 /\ now - lastApiCall >= API_RATE_LIMIT_MS
                 /\ fetchCount' = fetchCount + 1
           /\ (CompletedStep \/ FailedStep) => (loading /\ ~loading')
           /\ (SubmitStep /\ ~AcceptedStep) =>
                 (~loading' /\ request' = "none" /\ fetchCount' = fetchCount) ]_vars

\* A submission that has failed: the error of the catch block is shown and
\* loading is false again.
C29_Witness ==
    /\ ~loading
    /\ pc = "idle"
    /\ fetchCount >= 1
    /\ error # ""
    /\ error \notin ValidationMsgs \cup { NoApiKeyMsg, RateLimitMsg }

-----------------------------------------------------------------------------
(* C30 *)

\* showToast has run: a message is shown that was not, or the ref names a
\* timer it did not name before.
ShowToastStep ==
    toast' # "" /\ (toast' # toast \/ toastTimeoutRef' # toastTimeoutRef)

\* C30: at most one toast timer is pending, the one the ref names, and a
\* toast is shown exactly while it is; after showToast(m) the toast is m and
\* the pending timer is the one just started, due 3000 ms later; the toast
\* changes only by a showToast or by being cleared when the time of that
\* timer has come, never before.
C30_ToastLifetime ==
    /\ [](/\ Cardinality(toastTimers) <= 1
          /\ (toast # "") <=> (toastTimers # {})
          /\ \A d \in toastTimers :
                toastTimeoutRef = << d >> /\ now < d /\ d <= now + TOAST_MS)
    /\ [][ /\ ShowToastStep =>
                 /\ toast' \in ToastMessages
                 /\ toastTimers' = { now + TOAST_MS }
                 /\ now' = now
           /\ (toast' # toast /\ ~ShowToastStep) =>
                 /\ toast' = ""
                 /\ \A d \in toastTimers : now < d /\ now' >= d ]_vars

\* A second toast, shown 2000 ms after the first, still there 1000 ms later
\* when the time of the first one's timer has come.
C30_Witness ==
    /\ now = StartTime + TOAST_MS
    /\ toast = ClearedToast
    /\ toastTimers = { StartTime + (TOAST_MS \div 3) * 2 + TOAST_MS }

====
